---------------------------- MODULE Spec2Model ----------------------------
(***************************************************************************)
(* State-machine model of src/main.py: a sequential batch pipeline         *)
(*   Fetcher  (fetch_top_movies, fetch_movie_details, the Extract loop)    *)
(*   Normalizer (the three Transform passes)                               *)
(*   Loader   (five to_sql calls inside one try/except)                    *)
(*   Reporter (five queries inside one try/except/finally)                 *)
(* Every phase has its own specification over the same variables, so that  *)
(* each phase's inputs can be enumerated exhaustively within small bounds. *)
(***************************************************************************)
EXTENDS Integers, Sequences, FiniteSets, TLC

VARIABLES
    pc,                 \* position of the script
    page,               \* fetch_top_movies: loop variable `page`
    top_movies,         \* fetch_top_movies: accumulator `top_movies`
    pageLog,            \* responses the listing endpoint has given so far
    top_movies_list,    \* value returned by fetch_top_movies()
    idx,                \* Extract loop: number of listing entries consumed
    fetchLog,           \* per listing entry: id and the two response statuses
    all_movies_data,    \* Extract loop: accumulated combined records
    all_genres,         \* dict id -> name, kept in insertion order
    movie_genres_list,  \* junction rows (movie_id, genre_id)
    all_people,         \* dict id -> name, kept in insertion order
    movie_cast_list,    \* junction rows (movie_id, person_id, character_name)
    directors_map,      \* dict movie_id -> director_id
    movies_df,          \* final movies table
    store,              \* the database file: table name -> rows, or Absent
    loadLog,            \* Loader messages of this run: table loaded, or error
    run,                \* number of the current invocation of the script
    conn,               \* Reporter: "unset", "open" or "closed"
    output,             \* Reporter: queries run so far, each with its outcome
    reportError         \* Reporter printed "An error occurred"

vars == <<pc, page, top_movies, pageLog, top_movies_list, idx, fetchLog,
          all_movies_data, all_genres, movie_genres_list, all_people,
          movie_cast_list, directors_map, movies_df, store, loadLog,
          run, conn, output, reportError>>

fetchVars     == <<page, top_movies, pageLog, top_movies_list>>
extractVars   == <<idx, fetchLog, all_movies_data>>
transformVars == <<all_genres, movie_genres_list, all_people, movie_cast_list,
                   directors_map, movies_df>>
loadVars      == <<store, loadLog, run>>
reportVars    == <<conn, output, reportError>>

-----------------------------------------------------------------------------
(* Program constants *)

NumPages  == 3      \* range(1, 4)
TopLimit  == 50     \* top_movies[:50]
CastLimit == 10     \* row['cast'][:10]
HTTP_OK   == 200
NaN       == -1     \* the missing value Series.map leaves for an unmapped id

(* Bounds of the model *)

MaxPageLen    == 20  \* longest listing page
MaxListLen    == 3   \* longest listing the Extract loop is run on
MaxMovies     == 2   \* most raw records the Normalizer is run on
MaxLoadMovies == 1   \* most raw records in a Loader run
MaxRuns       == 2   \* invocations of the script over the same store

-----------------------------------------------------------------------------
(* Sequence helpers *)

Min(a, b) == IF a <= b THEN a ELSE b

\* Python's s[:n] for n >= 0
Take(s, n) == SubSeq(s, 1, Min(n, Len(s)))

Range(s) == {s[k] : k \in 1..Len(s)}

\* all sequences over S of length lo..hi
SeqsBetween(S, lo, hi) == UNION {[1..n -> S] : n \in lo..hi}

-----------------------------------------------------------------------------
(* The database file *)

\* the tables in the order the Loader writes them
LoadOrder == <<"movies", "genres", "people", "movie_genres", "movie_cast">>

Tables == Range(LoadOrder)

Absent == [exists |-> FALSE, rows |-> <<>>]

Table(rows) == [exists |-> TRUE, rows |-> rows]

EmptyStore == [t \in Tables |-> Absent]

-----------------------------------------------------------------------------
(* Idle values of each phase's variables *)

FetchIdle ==
    /\ page = 1
    /\ top_movies = <<>>
    /\ pageLog = <<>>

ExtractIdle ==
    /\ idx = 0
    /\ fetchLog = <<>>
    /\ all_movies_data = <<>>

TransformIdle ==
    /\ all_genres = <<>>
    /\ movie_genres_list = <<>>
    /\ all_people = <<>>
    /\ movie_cast_list = <<>>
    /\ directors_map = <<>>
    /\ movies_df = <<>>

LoadIdle ==
    /\ loadLog = <<>>
    /\ run = 1

ReportIdle ==
    /\ conn = "unset"
    /\ output = <<>>
    /\ reportError = FALSE

-----------------------------------------------------------------------------
(* Fetcher: fetch_top_movies *)

ErrorStatuses == {404, 500}

\* ids of the entries of a listing page: distinct across pages, or the same
\* on every page (the listing may repeat a movie on a later page)
SummaryId(p, k, repeat) == IF repeat THEN k ELSE (p - 1) * MaxPageLen + k

PageLens == {0, 1, MaxPageLen - 1, MaxPageLen}

\* JSON bodies a listing page may carry: with a 'results' list, or without
PageBodies(p) ==
    { [has_results |-> TRUE,
       results |-> [k \in 1..n |-> [id |-> SummaryId(p, k, rep)]]] :
         n \in PageLens, rep \in BOOLEAN }
    \cup { [has_results |-> FALSE, results |-> <<>>] }

\* response.json().get('results', [])
GetResults(body) == IF body.has_results THEN body.results ELSE <<>>

\* the value returned when a page answers with a non-200 status
FetchErrorReturnPartial(acc) == acc
FetchErrorReturn(acc) == <<>>

\* the value returned after the loop
FetchReturnValue(acc) == Take(acc, TopLimit)

\* one iteration of the loop whose response has status 200
FetchPageOK ==
    /\ pc = "fetch_top_movies"
    /\ page <= NumPages
    /\ \E body \in PageBodies(page) :
          /\ top_movies' = top_movies \o GetResults(body)
          /\ pageLog' = Append(pageLog, [status |-> HTTP_OK, body |-> body])
    /\ page' = page + 1
    /\ UNCHANGED <<pc, top_movies_list>>
    /\ UNCHANGED <<extractVars, transformVars, loadVars, reportVars>>

\* one iteration whose response has another status: return [] at once
FetchPageError ==
    /\ pc = "fetch_top_movies"
    /\ page <= NumPages
    /\ \E st \in ErrorStatuses, body \in PageBodies(page) :
          pageLog' = Append(pageLog, [status |-> st, body |-> body])
    /\ top_movies_list' = FetchErrorReturn(top_movies)
    /\ pc' = "fetched"
    /\ UNCHANGED <<page, top_movies>>
    /\ UNCHANGED <<extractVars, transformVars, loadVars, reportVars>>

\* the loop is over: return top_movies[:50]
FetchReturn ==
    /\ pc = "fetch_top_movies"
    /\ page > NumPages
    /\ top_movies_list' = FetchReturnValue(top_movies)
    /\ pc' = "fetched"
    /\ UNCHANGED <<page, top_movies, pageLog>>
    /\ UNCHANGED <<extractVars, transformVars, loadVars, reportVars>>

InitFetch ==
    /\ pc = "fetch_top_movies"
    /\ FetchIdle
    /\ top_movies_list = <<>>
    /\ ExtractIdle
    /\ TransformIdle
    /\ store = EmptyStore
    /\ LoadIdle
    /\ ReportIdle

NextFetch == FetchPageOK \/ FetchPageError \/ FetchReturn

SpecFetch == InitFetch /\ [][NextFetch]_vars


\* the results of the pages answered so far, concatenated in page order
RECURSIVE ConcatResults(_)
ConcatResults(log) ==
    IF log = <<>> THEN <<>>
    ELSE GetResults(Head(log).body) \o ConcatResults(Tail(log))

AllPagesOK ==
    /\ Len(pageLog) = NumPages
    /\ \A k \in 1..Len(pageLog) : pageLog[k].status = HTTP_OK

SomePageFailed == \E k \in 1..Len(pageLog) : pageLog[k].status # HTTP_OK

\* C1: fetch_top_movies returns at most 50 entries; it returns the empty
\* sequence whenever a page answered with a non-200 status, whatever the
\* earlier pages delivered; when all 3 pages answered 200 it returns the
\* first 50 entries of the pages' results concatenated in page order.
C1_FetchTopMovies ==
    pc = "fetched" =>
        /\ Len(top_movies_list) <= TopLimit
        /\ SomePageFailed => top_movies_list = <<>>
        /\ AllPagesOK =>
              top_movies_list = Take(ConcatResults(pageLog), TopLimit)
        /\ SomePageFailed \/ AllPagesOK

\* pages 1 and 2 delivered entries, page 3 failed, and nothing is returned
C1_Witness ==
    /\ pc = "fetched"
    /\ Len(pageLog) = NumPages
    /\ pageLog[NumPages].status # HTTP_OK
    /\ Len(top_movies) > MaxPageLen
    /\ top_movies_list = <<>>

\* all pages succeeded with more than 50 entries in total
C1_WitnessTruncated ==
    /\ pc = "fetched"
    /\ AllPagesOK
    /\ Len(top_movies) > TopLimit
    /\ Len(top_movies_list) = TopLimit

-----------------------------------------------------------------------------
(* The movie API: what the detail and credits endpoints answer for an id *)

Genre(i, n) == [id |-> i, name |-> n]
Actor(i, n, c) == [id |-> i, name |-> n, character |-> c]
Crew(i, n, j) == [id |-> i, name |-> n, job |-> j]

\* a cast list of n entries, person ids 101, 102, ... in billing order
CastOfLen(n) == [k \in 1..n |-> Actor(100 + k, "Extra", "Role")]

CatalogIds == {1, 2, 3}

Details(movie_id) ==
    CASE movie_id = 1 ->
           [id |-> 1, title |-> "M1", genres |-> <<Genre(1, "Drama")>>]
      [] movie_id = 2 ->
           [id |-> 2, title |-> "M2",
            genres |-> <<Genre(1, "Drame"), Genre(2, "Crime")>>]
      [] OTHER ->
           [id |-> movie_id, title |-> "M3", genres |-> <<>>]

Credits(movie_id) ==
    CASE movie_id = 1 ->
           [cast |-> <<Actor(6, "Bea", "Judge"), Actor(7, "Cy", "Clerk")>>,
            crew |-> <<Crew(9, "Wim", "Writer"), Crew(5, "A", "Director"),
                       Crew(6, "B", "Director")>>]
      [] movie_id = 2 ->
           [cast |-> CastOfLen(CastLimit + 2),
            crew |-> <<Crew(9, "Wim", "Writer")>>]
      [] OTHER ->
           [cast |-> <<Actor(5, "A-actor", "Self")>>,
            crew |-> <<Crew(6, "B", "Director")>>]

-----------------------------------------------------------------------------
(* Fetcher: fetch_movie_details and the Extract loop *)

Statuses == {HTTP_OK, 404}

\* the pair returned: <<details, credits>>, or <<>> for (None, None)
fetch_movie_details_either(movie_id, ds, cs) ==
    IF ds = HTTP_OK \/ cs = HTTP_OK
    THEN <<Details(movie_id), Credits(movie_id)>>
    ELSE <<>>
fetch_movie_details(movie_id, ds, cs) ==
    IF ds = HTTP_OK /\ cs = HTTP_OK
    THEN <<Details(movie_id), Credits(movie_id)>>
    ELSE <<>>

\* Python truth value of movie_summary.get('id'); a missing id (None) and the
\* id 0 are both false and both written 0 here
Truthy(movie_id) == movie_id # 0

combined_data(details, credits) ==
    [tmdb_id |-> details.id,
     title   |-> details.title,
     genres  |-> details.genres,
     cast    |-> credits.cast,
     crew    |-> credits.crew]

\* an iteration over a summary without a usable id: nothing is requested
ExtractSkipNoId ==
    /\ pc = "extract"
    /\ idx < Len(top_movies_list)
    /\ ~Truthy(top_movies_list[idx + 1].id)
    /\ idx' = idx + 1
    /\ fetchLog' = Append(fetchLog, [id |-> top_movies_list[idx + 1].id,
                                     details |-> 0, credits |-> 0])
    /\ UNCHANGED <<pc, all_movies_data>>
    /\ UNCHANGED <<fetchVars, transformVars, loadVars, reportVars>>

\* an iteration that requests details and credits, each answered with some
\* status; the record is kept only if fetch_movie_details returned a pair
ExtractFetch ==
    /\ pc = "extract"
    /\ idx < Len(top_movies_list)
    /\ Truthy(top_movies_list[idx + 1].id)
    /\ \E ds \in Statuses, cs \in Statuses :
          LET movie_id == top_movies_list[idx + 1].id
              r == fetch_movie_details(movie_id, ds, cs)
          IN /\ all_movies_data' =
                   IF r # <<>>
                   THEN Append(all_movies_data, combined_data(r[1], r[2]))
                   ELSE all_movies_data
             /\ fetchLog' = Append(fetchLog, [id |-> movie_id,
                                              details |-> ds, credits |-> cs])
    /\ idx' = idx + 1
    /\ UNCHANGED pc
    /\ UNCHANGED <<fetchVars, transformVars, loadVars, reportVars>>

\* the loop is over (or the listing was empty): go on to Transform
ExtractDone ==
    /\ pc = "extract"
    /\ idx = Len(top_movies_list)
    /\ pc' = "transform_genres"
    /\ UNCHANGED <<fetchVars, extractVars, transformVars, loadVars, reportVars>>

-----------------------------------------------------------------------------
(* Normalizer: dictionaries *)

\* a Python dict is a sequence of [id, name] entries in insertion order,
\* which is the row order of pd.DataFrame(list(d.items()))
DictKeys(d) == {d[k].id : k \in 1..Len(d)}

\* d[key] = name, unconditionally: the stored name is overwritten in place
DictPutOverwrite(d, key, name) ==
    IF key \in DictKeys(d)
    THEN [k \in 1..Len(d) |-> IF d[k].id = key THEN [id |-> key, name |-> name]
                                               ELSE d[k]]
    ELSE Append(d, [id |-> key, name |-> name])
\* if key not in d: d[key] = name
DictPut(d, key, name) ==
    IF key \in DictKeys(d) THEN d ELSE Append(d, [id |-> key, name |-> name])

\* directors_map[movie_id] = director_id
MapPut(m, key, val) ==
    [x \in (DOMAIN m) \cup {key} |-> IF x = key THEN val ELSE m[x]]

-----------------------------------------------------------------------------
(* Normalizer, pass 1: genres *)

\* the loop over row['genres'] for one movie
RECURSIVE GenreLoop(_, _, _)
GenreLoop(st, movie_id, genres) ==
    IF genres = <<>> THEN st
    ELSE LET genre == Head(genres)
         IN GenreLoop(
              [all_genres |-> DictPut(st.all_genres, genre.id, genre.name),
               movie_genres_list |->
                   Append(st.movie_genres_list,
                          [movie_id |-> movie_id, genre_id |-> genre.id])],
              movie_id, Tail(genres))

\* the loop over raw_data_df.iterrows()
RECURSIVE GenrePass(_, _)
GenrePass(st, rows) ==
    IF rows = <<>> THEN st
    ELSE GenrePass(GenreLoop(st, Head(rows).tmdb_id, Head(rows).genres),
                   Tail(rows))

TransformGenres ==
    /\ pc = "transform_genres"
    /\ LET st == GenrePass([all_genres |-> <<>>, movie_genres_list |-> <<>>],
                           all_movies_data)
       IN /\ all_genres' = st.all_genres
          /\ movie_genres_list' = st.movie_genres_list
    /\ pc' = "transform_people"
    /\ UNCHANGED <<all_people, movie_cast_list, directors_map, movies_df>>
    /\ UNCHANGED <<fetchVars, extractVars, loadVars, reportVars>>

-----------------------------------------------------------------------------
(* Normalizer, pass 2: people, directors and cast *)

\* the crew scan: <<member>> for the member the loop breaks on, <<>> if the
\* loop runs to its end
RECURSIVE LastDirector(_)
LastDirector(crew) ==
    IF crew = <<>> THEN <<>>
    ELSE IF crew[Len(crew)].job = "Director" THEN <<crew[Len(crew)]>>
    ELSE LastDirector(SubSeq(crew, 1, Len(crew) - 1))
RECURSIVE FirstDirector(_)
FirstDirector(crew) ==
    IF crew = <<>> THEN <<>>
    ELSE IF Head(crew).job = "Director" THEN <<Head(crew)>>
    ELSE FirstDirector(Tail(crew))

\* the director part of one iteration
DirectorStep(st, row) ==
    LET found == FirstDirector(row.crew)
    IN IF found = <<>> THEN st
       ELSE [st EXCEPT
               !.directors_map = MapPut(@, row.tmdb_id, found[1].id),
               !.all_people = DictPut(@, found[1].id, found[1].name)]

\* row['cast'][:10]
CastSliceAll(cast) == cast
CastSlice(cast) == Take(cast, CastLimit)

\* the loop over the sliced cast of one movie
RECURSIVE CastLoop(_, _, _)
CastLoop(st, movie_id, cast) ==
    IF cast = <<>> THEN st
    ELSE LET actor == Head(cast)
         IN CastLoop(
              [st EXCEPT
                 !.all_people = DictPut(@, actor.id, actor.name),
                 !.movie_cast_list =
                     Append(@, [movie_id |-> movie_id,
                                person_id |-> actor.id,
                                character_name |-> actor.character])],
              movie_id, Tail(cast))

\* the loop over raw_data_df.iterrows()
RECURSIVE PeoplePass(_, _)
PeoplePass(st, rows) ==
    IF rows = <<>> THEN st
    ELSE PeoplePass(CastLoop(DirectorStep(st, Head(rows)),
                             Head(rows).tmdb_id, CastSlice(Head(rows).cast)),
                    Tail(rows))

TransformPeople ==
    /\ pc = "transform_people"
    /\ LET st == PeoplePass([all_people |-> <<>>, movie_cast_list |-> <<>>,
                             directors_map |-> <<>>], all_movies_data)
       IN /\ all_people' = st.all_people
          /\ movie_cast_list' = st.movie_cast_list
          /\ directors_map' = st.directors_map
    /\ pc' = "transform_movies"
    /\ UNCHANGED <<all_genres, movie_genres_list, movies_df>>
    /\ UNCHANGED <<fetchVars, extractVars, loadVars, reportVars>>

-----------------------------------------------------------------------------
(* Normalizer, pass 3: the movies table *)

\* Series.map(directors_map) for one id
MapDirectorFill(m, movie_id) == IF movie_id \in DOMAIN m THEN m[movie_id] ELSE 0
MapDirector(m, movie_id) == IF movie_id \in DOMAIN m THEN m[movie_id] ELSE NaN

\* the column selection, the director_id column and the rename of tmdb_id;
\* of the detail columns only title is carried, the others (overview,
\* release_date, vote_average) are copied the same way and read by no pass
MoviesWithDirector(rows, m) ==
    [k \in 1..Len(rows) |->
        [id |-> rows[k].tmdb_id,
         title |-> rows[k].title,
         director_id |-> MapDirector(m, rows[k].tmdb_id)]]

\* dropna(subset=['director_id'])
DropNa(rows) == SelectSeq(rows, LAMBDA r : r.director_id # NaN)

HasNaN(rows) == \E k \in 1..Len(rows) : rows[k].director_id = NaN

\* raw_data_df has no columns when no record was collected, and selecting
\* the movie columns raises KeyError: the script ends here
TransformCrash ==
    /\ pc = "transform_movies"
    /\ all_movies_data = <<>>
    /\ pc' = "crashed"
    /\ UNCHANGED <<fetchVars, extractVars, transformVars, loadVars, reportVars>>

\* astype(int) raises on a remaining NaN; otherwise it keeps the values
TransformMovies ==
    /\ pc = "transform_movies"
    /\ all_movies_data # <<>>
    /\ LET kept == DropNa(MoviesWithDirector(all_movies_data, directors_map))
       IN IF HasNaN(kept)
          THEN pc' = "crashed" /\ UNCHANGED movies_df
          ELSE pc' = "load" /\ movies_df' = kept
    /\ UNCHANGED <<all_genres, movie_genres_list, all_people, movie_cast_list,
                   directors_map>>
    /\ UNCHANGED <<fetchVars, extractVars, loadVars, reportVars>>

\* the five DataFrames handed to the Loader
genres_df == all_genres
people_df == all_people
movie_genres_df == movie_genres_list
movie_cast_df == movie_cast_list

Transform == TransformGenres \/ TransformPeople \/ TransformCrash
                \/ TransformMovies

-----------------------------------------------------------------------------
(* The Extract loop followed by Transform, over every short listing *)

SummaryIds == {0} \cup CatalogIds

InitExtract ==
    /\ pc = "extract"
    /\ FetchIdle
    /\ top_movies_list \in
          SeqsBetween({[id |-> n] : n \in SummaryIds}, 0, MaxListLen)
    /\ ExtractIdle
    /\ TransformIdle
    /\ store = EmptyStore
    /\ LoadIdle
    /\ ReportIdle

NextExtract == ExtractSkipNoId \/ ExtractFetch \/ ExtractDone \/ Transform

SpecExtract == InitExtract /\ [][NextExtract]_vars


\* a listing entry whose detail and credits requests both answered 200
Succeeded(e) == e.details = HTTP_OK /\ e.credits = HTTP_OK

\* a listing entry for which a request was made and one of them failed
Failed(e) == Truthy(e.id) /\ ~Succeeded(e)

\* the records of the listing entries that succeeded, in listing order
RECURSIVE RecordsOfSucceeded(_)
RecordsOfSucceeded(log) ==
    IF log = <<>> THEN <<>>
    ELSE (IF Succeeded(Head(log))
          THEN <<combined_data(Details(Head(log).id), Credits(Head(log).id))>>
          ELSE <<>>) \o RecordsOfSucceeded(Tail(log))

SucceededIds == {fetchLog[k].id : k \in {j \in 1..Len(fetchLog) :
                                            Succeeded(fetchLog[j])}}

\* movie ids for which some request failed and no listing entry succeeded
OnlyFailedIds ==
    {fetchLog[k].id : k \in {j \in 1..Len(fetchLog) : Failed(fetchLog[j])}}
        \ SucceededIds

GenreIdsOf(ids) == UNION {{g.id : g \in Range(Details(m).genres)} : m \in ids}

PersonIdsOf(ids) ==
    UNION {{a.id : a \in Range(Credits(m).cast)}
             \cup {c.id : c \in Range(Credits(m).crew)} : m \in ids}

\* C2: a listed movie whose detail or credits request answers non-200 is
\* skipped: it adds no record, hence no row to movies, movie_genres or
\* movie_cast and no entry to genres or people; every listing entry is still
\* visited, and the records collected are exactly those of the entries that
\* succeeded, in listing order, as if the failing entries were not listed.
C2_FailedMovieSkipped ==
    /\ pc # "extract" =>
          /\ Len(fetchLog) = Len(top_movies_list)
          /\ \A k \in 1..Len(fetchLog) : fetchLog[k].id = top_movies_list[k].id
          /\ all_movies_data = RecordsOfSucceeded(fetchLog)
    /\ pc \in {"transform_movies", "load", "crashed"} =>
          /\ \A r \in Range(movie_genres_list) : r.movie_id \notin OnlyFailedIds
          /\ \A r \in Range(movie_cast_list) : r.movie_id \notin OnlyFailedIds
          /\ DictKeys(all_genres) = GenreIdsOf(SucceededIds)
          /\ DictKeys(all_people) \subseteq PersonIdsOf(SucceededIds)
    /\ pc = "load" =>
          /\ \A r \in Range(movies_df) : r.id \notin OnlyFailedIds
          /\ {r.id : r \in Range(movies_df)} \subseteq SucceededIds

\* a failing entry is followed by one that succeeds and reaches the tables
C2_Witness ==
    /\ pc = "load"
    /\ \E k \in 1..Len(fetchLog), j \in 1..Len(fetchLog) :
          /\ k < j
          /\ Failed(fetchLog[k])
          /\ fetchLog[k].id \in OnlyFailedIds
          /\ Succeeded(fetchLog[j])
          /\ fetchLog[j].id \in {r.id : r \in Range(movies_df)}

-----------------------------------------------------------------------------
(* Transform over every short sequence of raw records *)

MovieIds == {1, 2}

GenreOptions ==
    { <<>>,
      <<Genre(1, "Drama")>>,
      <<Genre(1, "Drame"), Genre(2, "Crime")>> }

CastOptions ==
    { <<>>,
      <<Actor(5, "A-actor", "Self"), Actor(7, "Cy", "Clerk")>>,
      CastOfLen(CastLimit + 2) }

CrewOptions ==
    { <<Crew(9, "Wim", "Writer")>>,
      <<Crew(9, "Wim", "Writer"), Crew(5, "A", "Director"),
        Crew(6, "B", "Director")>>,
      <<Crew(7, "Cy-dir", "Director")>> }

RecordOptions ==
    { [tmdb_id |-> m, title |-> "T", genres |-> g, cast |-> c, crew |-> w] :
         m \in MovieIds, g \in GenreOptions, c \in CastOptions,
         w \in CrewOptions }

\* the API answers for one id with one record: a movie listed twice is
\* collected twice with the same content
SameIdSameRecord(rows) ==
    \A a \in 1..Len(rows), b \in 1..Len(rows) :
        rows[a].tmdb_id = rows[b].tmdb_id => rows[a] = rows[b]

InitTransform ==
    /\ pc = "transform_genres"
    /\ FetchIdle
    /\ top_movies_list = <<>>
    /\ idx = 0
    /\ fetchLog = <<>>
    /\ all_movies_data \in
          {rows \in SeqsBetween(RecordOptions, 0, MaxMovies) :
              SameIdSameRecord(rows)}
    /\ TransformIdle
    /\ store = EmptyStore
    /\ LoadIdle
    /\ ReportIdle

NextTransform == Transform

SpecTransform == InitTransform /\ [][NextTransform]_vars

HasDirector(crew) == \E k \in 1..Len(crew) : crew[k].job = "Director"

\* position of the first crew entry with job "Director"
FirstDirectorIndex(crew) ==
    CHOOSE k \in 1..Len(crew) :
        /\ crew[k].job = "Director"
        /\ \A j \in 1..(k - 1) : crew[j].job # "Director"

MovieTableIds == {r.id : r \in Range(movies_df)}

\* C3: when the tables are handed to the Loader, every movie_genres and
\* movie_cast row names a movie that has a row in movies, a genre that has a
\* row in genres and a person that has a row in people.
C3_ReferentialIntegrity ==
    pc = "load" =>
        /\ \A r \in Range(movie_genres_df) :
              r.movie_id \in MovieTableIds /\ r.genre_id \in DictKeys(genres_df)
        /\ \A r \in Range(movie_cast_df) :
              r.movie_id \in MovieTableIds /\ r.person_id \in DictKeys(people_df)

\* C4: a movie without a crew entry of job "Director" has no row in the final
\* movies table, every movie with one has its row, and no row of the final
\* table carries a missing director_id.
C4_DirectorFilter ==
    pc = "load" =>
        /\ \A r \in Range(all_movies_data) :
              HasDirector(r.crew) <=> r.tmdb_id \in MovieTableIds
        /\ Len(movies_df) =
              Len(SelectSeq(all_movies_data, LAMBDA r : HasDirector(r.crew)))
        /\ \A r \in Range(movies_df) : r.director_id # NaN /\ r.director_id >= 0

\* one record was dropped for want of a director, another was kept
C4_Witness ==
    /\ pc = "load"
    /\ \E r \in Range(all_movies_data) :
          ~HasDirector(r.crew) /\ r.tmdb_id \notin MovieTableIds
    /\ movies_df # <<>>

\* number of movie_cast rows due to the first k records
RECURSIVE CastRowsUpTo(_, _)
CastRowsUpTo(rows, k) ==
    IF k = 0 THEN 0
    ELSE CastRowsUpTo(rows, k - 1) + Min(CastLimit, Len(rows[k].cast))

\* C5: a movie with n cast entries yields exactly min(10, n) movie_cast rows,
\* which are its first min(10, n) cast entries in billing order, each with
\* that entry's person id and character name.
C5_CastTruncation ==
    pc \in {"transform_movies", "load"} =>
        /\ Len(movie_cast_list) =
              CastRowsUpTo(all_movies_data, Len(all_movies_data))
        /\ \A k \in 1..Len(all_movies_data) :
              \A j \in 1..Min(CastLimit, Len(all_movies_data[k].cast)) :
                  movie_cast_list[CastRowsUpTo(all_movies_data, k - 1) + j] =
                      [movie_id |-> all_movies_data[k].tmdb_id,
                       person_id |-> all_movies_data[k].cast[j].id,
                       character_name |-> all_movies_data[k].cast[j].character]

\* a movie with 12 cast entries has produced exactly its first 10
C5_Witness ==
    /\ pc = "load"
    /\ Len(all_movies_data) = 1
    /\ Len(all_movies_data[1].cast) = CastLimit + 2
    /\ Len(movie_cast_list) = CastLimit
    /\ movie_cast_list[CastLimit].person_id =
          all_movies_data[1].cast[CastLimit].id

\* genre entries in processing order: movie by movie, in listed order
RECURSIVE GenreOccurrences(_)
GenreOccurrences(rows) ==
    IF rows = <<>> THEN <<>>
    ELSE Head(rows).genres \o GenreOccurrences(Tail(rows))

\* person entries in processing order: per movie the director the crew scan
\* stops on, then the sliced cast
RECURSIVE PersonOccurrences(_)
PersonOccurrences(rows) ==
    IF rows = <<>> THEN <<>>
    ELSE LET r == Head(rows)
             d == IF HasDirector(r.crew)
                  THEN <<[id |-> r.crew[FirstDirectorIndex(r.crew)].id,
                          name |-> r.crew[FirstDirectorIndex(r.crew)].name]>>
                  ELSE <<>>
             c == [j \in 1..Min(CastLimit, Len(r.cast)) |->
                      [id |-> r.cast[j].id, name |-> r.cast[j].name]]
         IN d \o c \o PersonOccurrences(Tail(rows))

\* the name carried by the first occurrence of id in occ
FirstName(occ, id) ==
    occ[CHOOSE k \in 1..Len(occ) :
            /\ occ[k].id = id
            /\ \A j \in 1..(k - 1) : occ[j].id # id].name

NoDuplicateIds(d) ==
    \A a \in 1..Len(d), b \in 1..Len(d) : d[a].id = d[b].id => a = b

FirstSeenNames(d, occ) ==
    /\ DictKeys(d) = {o.id : o \in Range(occ)}
    /\ \A k \in 1..Len(d) : d[k].name = FirstName(occ, d[k].id)

\* C6: genres and people hold no id twice, and the name stored for an id is
\* the name of its first occurrence in processing order; a later occurrence
\* with another name never overwrites it.
C6_FirstSeenWins ==
    pc \in {"transform_movies", "load"} =>
        /\ NoDuplicateIds(genres_df)
        /\ NoDuplicateIds(people_df)
        /\ FirstSeenNames(genres_df, GenreOccurrences(all_movies_data))
        /\ FirstSeenNames(people_df, PersonOccurrences(all_movies_data))

\* person 7 is the director of the first movie ("Cy-dir") and a cast member
\* of the second ("Cy"); people holds the id once, under the first name
C6_Witness ==
    /\ pc = "load"
    /\ Len(all_movies_data) = 2
    /\ HasDirector(all_movies_data[1].crew)
    /\ all_movies_data[1].crew[1].id = 7
    /\ \E j \in 1..Len(all_movies_data[2].cast) :
          /\ all_movies_data[2].cast[j].id = 7
          /\ all_movies_data[2].cast[j].name # all_movies_data[1].crew[1].name
    /\ \E k \in 1..Len(people_df) :
          people_df[k].id = 7 /\ people_df[k].name = "Cy-dir"

\* C7: the resolved director of a movie is the first crew entry, in listed
\* order, with job "Director"; later entries never change it; a movie without
\* such an entry has no resolved director.
C7_FirstDirector ==
    pc \in {"transform_movies", "load"} =>
        \A r \in Range(all_movies_data) :
            IF HasDirector(r.crew)
            THEN /\ r.tmdb_id \in DOMAIN directors_map
                 /\ directors_map[r.tmdb_id] =
                       r.crew[FirstDirectorIndex(r.crew)].id
            ELSE r.tmdb_id \notin DOMAIN directors_map

\* crew [Writer, Director 5, Director 6] has resolved to 5
C7_Witness ==
    /\ pc = "load"
    /\ \E r \in Range(all_movies_data) :
          /\ Len(r.crew) = 3
          /\ r.crew[1].job = "Writer"
          /\ r.crew[2].job = "Director" /\ r.crew[2].id = 5
          /\ r.crew[3].job = "Director" /\ r.crew[3].id = 6
          /\ directors_map[r.tmdb_id] = 5

-----------------------------------------------------------------------------
(* Loader *)

\* the DataFrame written under each table name
DataFrameOf(t) ==
    CASE t = "movies" -> movies_df
      [] t = "genres" -> genres_df
      [] t = "people" -> people_df
      [] t = "movie_genres" -> movie_genres_df
      [] OTHER -> movie_cast_df

\* df.to_sql(name, engine, if_exists='replace', index=False) when it succeeds
ToSqlAppend(old, df) == Table(old.rows \o df)
ToSql(old, df) == Table(df)

\* what a to_sql call that raises may leave of the table it was writing:
\* the previous table, or none (dropped and not recreated)
FailedWriteOutcomes(old) == {old, Absent}

\* where the script goes when a to_sql call raises: the except clause, which
\* prints the error and ends the Load phase
AfterLoadErrorContinue == "load"
AfterLoadError == "load_done"

NextTable == LoadOrder[Len(loadLog) + 1]

\* the next to_sql call succeeds and its message is printed
LoadTable ==
    /\ pc = "load"
    /\ Len(loadLog) < Len(LoadOrder)
    /\ store' = [store EXCEPT
                   ![NextTable] = ToSql(@, DataFrameOf(NextTable))]
    /\ loadLog' = Append(loadLog, [table |-> NextTable, ok |-> TRUE])
    /\ pc' = IF Len(loadLog) + 1 = Len(LoadOrder) THEN "load_done" ELSE "load"
    /\ UNCHANGED run
    /\ UNCHANGED <<fetchVars, extractVars, transformVars, reportVars>>

\* the next to_sql call raises (the database cannot be written, or the
\* DataFrame of an empty junction list has no columns to create the table
\* from): the error is printed, the rest is skipped
LoadTableError ==
    /\ pc = "load"
    /\ Len(loadLog) < Len(LoadOrder)
    /\ \E left \in FailedWriteOutcomes(store[NextTable]) :
          store' = [store EXCEPT ![NextTable] = left]
    /\ loadLog' = Append(loadLog, [table |-> NextTable, ok |-> FALSE])
    /\ pc' = AfterLoadError
    /\ UNCHANGED run
    /\ UNCHANGED <<fetchVars, extractVars, transformVars, reportVars>>

\* the script is invoked again over the same database file and the API
\* answers as before: Transform and Load start afresh
RunAgain ==
    /\ pc \in {"load_done", "crashed"}
    /\ run < MaxRuns
    /\ run' = run + 1
    /\ pc' = "transform_genres"
    /\ all_genres' = <<>>
    /\ movie_genres_list' = <<>>
    /\ all_people' = <<>>
    /\ movie_cast_list' = <<>>
    /\ directors_map' = <<>>
    /\ movies_df' = <<>>
    /\ loadLog' = <<>>
    /\ UNCHANGED store
    /\ UNCHANGED <<fetchVars, extractVars, reportVars>>

\* a database file left by an earlier run over other data
StaleStore ==
    [t \in Tables |-> Table(<<[id |-> 99, name |-> "stale"]>>)]

LoadRecordOptions ==
    { [tmdb_id |-> 1, title |-> "T", genres |-> <<Genre(1, "Drama")>>,
       cast |-> <<Actor(5, "A-actor", "Self"), Actor(7, "Cy", "Clerk")>>,
       crew |-> <<Crew(9, "Wim", "Writer"), Crew(5, "A", "Director"),
                  Crew(6, "B", "Director")>>],
      [tmdb_id |-> 2, title |-> "T",
       genres |-> <<Genre(1, "Drame"), Genre(2, "Crime")>>,
       cast |-> <<>>,
       crew |-> <<Crew(9, "Wim", "Writer")>>] }

InitLoad ==
    /\ pc = "transform_genres"
    /\ FetchIdle
    /\ top_movies_list = <<>>
    /\ idx = 0
    /\ fetchLog = <<>>
    /\ all_movies_data \in
          {rows \in SeqsBetween(LoadRecordOptions, 0, MaxLoadMovies) :
              SameIdSameRecord(rows)}
    /\ TransformIdle
    /\ store \in {EmptyStore, StaleStore}
    /\ LoadIdle
    /\ ReportIdle

NextLoad == Transform \/ LoadTable \/ LoadTableError \/ RunAgain

SpecLoad == InitLoad /\ [][NextLoad]_vars

\* C8 (state part): the Loader's messages name the tables in the order
\* movies, genres, people, movie_genres, movie_cast; a failure is the last
\* message of the run and ends the Load phase; every table reported loaded
\* holds its new contents, also after a later table failed.
C8_LoadLogOrdered ==
    /\ Len(loadLog) <= Len(LoadOrder)
    /\ \A k \in 1..Len(loadLog) :
          /\ loadLog[k].table = LoadOrder[k]
          /\ loadLog[k].ok =>
                store[LoadOrder[k]] = Table(DataFrameOf(LoadOrder[k]))
          /\ ~loadLog[k].ok => k = Len(loadLog) /\ pc = "load_done"

\* C8 (step part): a step changes at most one table, the one whose turn it
\* is, and only while the Load phase has not ended
C8_OnlyNextTableWritten ==
    \A t \in Tables :
        store'[t] # store[t] =>
            /\ pc = "load"
            /\ Len(loadLog) < Len(LoadOrder)
            /\ t = LoadOrder[Len(loadLog) + 1]

\* C8: tables are written in the order movies, genres, people, movie_genres,
\* movie_cast; when writing one fails the error is reported, no later table
\* is written in that run, and the tables written before keep their new
\* contents.
C8_LoadAbortsWithoutRollback ==
    [](C8_LoadLogOrdered) /\ [][C8_OnlyNextTableWritten]_vars

\* the third write failed over a stale database: movies and genres are new,
\* movie_genres and movie_cast are still the stale ones
C8_Witness ==
    /\ pc = "load_done"
    /\ Len(loadLog) = 3
    /\ ~loadLog[3].ok
    /\ movies_df # <<>>
    /\ store["movies"] = Table(movies_df)
    /\ store["genres"] = Table(genres_df)
    /\ store["movie_genres"] = StaleStore["movie_genres"]
    /\ store["movie_cast"] = StaleStore["movie_cast"]

LoadSucceeded ==
    /\ pc = "load_done"
    /\ Len(loadLog) = Len(LoadOrder)
    /\ \A k \in 1..Len(loadLog) : loadLog[k].ok

\* C9: after a fully successful load every table equals the corresponding
\* normalized table, whatever the database held before; so a second load of
\* the same dataset leaves the database as the first did.
C9_ReplaceNotMerge ==
    LoadSucceeded =>
        \A t \in Tables : store[t] = Table(DataFrameOf(t))

\* the second run over a database that was stale before the first
C9_Witness ==
    /\ LoadSucceeded
    /\ run = 2
    /\ \A t \in Tables : DataFrameOf(t) # <<>>

-----------------------------------------------------------------------------
(* Reporter *)

NumQueries == 5

\* the tables each of the five queries reads
QueryTables(q) ==
    CASE q = 1 -> {"movies"}
      [] q = 2 -> {"genres", "movie_genres"}
      [] q = 3 -> {"people", "movies"}
      [] q = 4 -> {"people", "movies"}
      [] OTHER -> {"movies"}

\* the finally clause: close the connection if one was opened
FinallyConnUnlessError(c, err) == IF c = "open" /\ ~err THEN "closed" ELSE c
FinallyConn(c, err) == IF c = "open" THEN "closed" ELSE c

NextQuery == Len(output) + 1

\* sqlite3.connect succeeds
ReportConnect ==
    /\ pc = "report"
    /\ conn' = "open"
    /\ pc' = "report_query"
    /\ UNCHANGED <<output, reportError>>
    /\ UNCHANGED <<fetchVars, extractVars, transformVars, loadVars>>

\* sqlite3.connect raises: conn is never bound
ReportConnectError ==
    /\ pc = "report"
    /\ reportError' = TRUE
    /\ pc' = "report_finally"
    /\ UNCHANGED <<conn, output>>
    /\ UNCHANGED <<fetchVars, extractVars, transformVars, loadVars>>

\* the next query runs and its result is printed
ReportQuery ==
    /\ pc = "report_query"
    /\ \A t \in QueryTables(NextQuery) : store[t].exists
    /\ output' = Append(output, [query |-> NextQuery, ok |-> TRUE])
    /\ pc' = IF NextQuery = NumQueries THEN "report_finally" ELSE "report_query"
    /\ UNCHANGED <<conn, reportError>>
    /\ UNCHANGED <<fetchVars, extractVars, transformVars, loadVars>>

\* the next query raises (a table is missing, or the database cannot be
\* read): the error is printed and the loop is left
ReportQueryError ==
    /\ pc = "report_query"
    /\ output' = Append(output, [query |-> NextQuery, ok |-> FALSE])
    /\ reportError' = TRUE
    /\ pc' = "report_finally"
    /\ UNCHANGED conn
    /\ UNCHANGED <<fetchVars, extractVars, transformVars, loadVars>>

ReportFinally ==
    /\ pc = "report_finally"
    /\ conn' = FinallyConn(conn, reportError)
    /\ pc' = "report_done"
    /\ UNCHANGED <<output, reportError>>
    /\ UNCHANGED <<fetchVars, extractVars, transformVars, loadVars>>

InitReport ==
    /\ pc = "report"
    /\ FetchIdle
    /\ top_movies_list = <<>>
    /\ ExtractIdle
    /\ TransformIdle
    /\ store \in [Tables -> {Absent, Table(<<>>)}]
    /\ LoadIdle
    /\ ReportIdle

NextReport == ReportConnect \/ ReportConnectError \/ ReportQuery
                 \/ ReportQueryError \/ ReportFinally

SpecReport == InitReport /\ [][NextReport]_vars

\* C10: the queries run in the order 1 to 5; a failing query is the last one
\* run and its error is reported; and whenever the Reporter has ended, the
\* connection it opened has been closed.
C10_ReporterClosesConnection ==
    /\ Len(output) <= NumQueries
    /\ \A k \in 1..Len(output) :
          /\ output[k].query = k
          /\ ~output[k].ok =>
                /\ k = Len(output)
                /\ reportError
                /\ pc \in {"report_finally", "report_done"}
    /\ output # <<>> => conn # "unset"
    /\ pc = "report_done" =>
          /\ conn # "open"
          /\ ~reportError => Len(output) = NumQueries /\ conn = "closed"

\* the third query failed, the last two never ran, the connection is closed
C10_Witness ==
    /\ pc = "report_done"
    /\ Len(output) = 3
    /\ output[1].ok /\ output[2].ok /\ ~output[3].ok
    /\ reportError
    /\ conn = "closed"

=============================================================================
